---- MODULE Spec2Model ----
(***************************************************************************)
(* Employee / Office record service (routes/employees.js, the offices      *)
(* router and the two Mongoose schemas).  The store is the pair of         *)
(* collections; every route handler is one action.  A second               *)
(* specification, SpecConc, splits the read-check-write handlers at their  *)
(* awaited store calls.                                                    *)
(*                                                                         *)
(* Fields left out of the stored record: name, createdBy, createdAt (no    *)
(* handler branches on them).  Request bodies enumerate officeId,          *)
(* isRegisteredOnIGOT, coursesEnrolled, coursesCompleted, reportDate and   *)
(* isFrozen; an absent (undefined) field is the empty set, a present one   *)
(* the singleton of its value.                                             *)
(***************************************************************************)
EXTENDS Integers, FiniteSets, TLC

VARIABLES employees, offices, nextEmployeeId, nextOfficeId, now, resp, inflight

vars == <<employees, offices, nextEmployeeId, nextOfficeId, now, resp, inflight>>

\* ------------------------------------------------------------------ bounds
MaxEmployees == 1
MaxOffices == 2
MaxCount == 1
MaxClock == 2
MaxUpdateFields == 1
MaxInflight == 1

EmployeeIds == 1..MaxEmployees
\* ids a request may name: a malformed one (BadId) and every id the store can
\* assign, which names no document before its Create and after its Delete
BadId == 0
RequestIds == {BadId} \cup EmployeeIds
OfficeIds == 1..MaxOffices
Dates == 1..MaxClock
CountInputs == (-1)..MaxCount
Procs == 1..MaxInflight

\* ------------------------------------------------------------ request data
Opt(S) == {{}} \cup {{x} : x \in S}
Has(o) == o # {}
Val(o) == CHOOSE x \in o : TRUE
OrElse(o, d) == IF Has(o) THEN Val(o) ELSE d

\* req.user, as the protect middleware leaves it
Admin == [role |-> "admin", officeId |-> 0]
Callers == {Admin} \cup [role : {"user"}, officeId : OfficeIds]
IsAdmin(c) == c.role = "admin"

BodyShape ==
  [officeId : Opt(OfficeIds), isRegisteredOnIGOT : Opt(BOOLEAN),
   coursesEnrolled : Opt(CountInputs), coursesCompleted : Opt(CountInputs),
   reportDate : Opt(Dates), isFrozen : Opt(BOOLEAN)]

BodyFields ==
  {"officeId", "isRegisteredOnIGOT", "coursesEnrolled", "coursesCompleted",
   "reportDate", "isFrozen"}

NumFields(b) == Cardinality({f \in BodyFields : Has(b[f])})

\* POST destructures six named fields: an isFrozen in the body is not read
CreateBodies == {b \in BodyShape : ~Has(b.isFrozen)}
UpdateBodies == {b \in BodyShape : NumFields(b) <= MaxUpdateFields}
EmptyBody ==
  [officeId |-> {}, isRegisteredOnIGOT |-> {}, coursesEnrolled |-> {},
   coursesCompleted |-> {}, reportDate |-> {}, isFrozen |-> {}]

\* a handler between its two store calls: the route, req.user, req.params.id
\* and req.body (the local employee is not read again after the checks)
Idle == [pc |-> "idle", op |-> "none", caller |-> Admin, id |-> 0, body |-> EmptyBody]

NoResp == [op |-> "none", caller |-> Admin, id |-> 0, status |-> 0]
Response(op, c, id, status) == [op |-> op, caller |-> c, id |-> id, status |-> status]

\* ---------------------------------------------------------- Employee schema
\* coursesEnrolled.validate, run on a document: this is the document
EnrolledValidator(val, isRegisteredOnIGOT) ==
  IF isRegisteredOnIGOT THEN val >= 0 ELSE val = 0

\* coursesCompleted.validate, run on a document
CompletedValidator(val, coursesEnrolled) == val <= coursesEnrolled

\* The document Employee.create builds from the handler's object: schema
\* defaults fill the undefined paths (officeId stays as sent: it is required).
NewEmployee(b, t) ==
  LET reg == OrElse(b.isRegisteredOnIGOT, FALSE)
  IN [officeId |-> b.officeId,
      isRegisteredOnIGOT |-> reg,
      coursesEnrolled |-> IF reg THEN OrElse(b.coursesEnrolled, 0) ELSE 0,
      coursesCompleted |-> IF reg THEN OrElse(b.coursesCompleted, 0) ELSE 0,
      reportDate |-> OrElse(b.reportDate, t),
      isFrozen |-> FALSE,
      updatedAt |-> t]

\* document validation on create: required officeId and the two validators
ValidDocument(d) ==
  /\ Has(d.officeId)
  /\ EnrolledValidator(d.coursesEnrolled, d.isRegisteredOnIGOT)
  /\ CompletedValidator(d.coursesCompleted, d.coursesEnrolled)

Stored(d) == [d EXCEPT !.officeId = Val(d.officeId)]

\* Update validators (findByIdAndUpdate with runValidators) run only on the
\* paths the update sets, and this is not the document: this.isRegisteredOnIGOT
\* and this.coursesEnrolled are undefined, so the first validator takes its
\* else branch (val === 0) and the second compares val <= undefined (false).
ValidUpdate(b) ==
  /\ Has(b.coursesEnrolled) => Val(b.coursesEnrolled) = 0
  /\ ~Has(b.coursesCompleted)

\* $set of the body's paths; pre('save') does not run on findByIdAndUpdate,
\* so updatedAt is left alone
ApplyUpdate(e, b) ==
  [officeId |-> OrElse(b.officeId, e.officeId),
   isRegisteredOnIGOT |-> OrElse(b.isRegisteredOnIGOT, e.isRegisteredOnIGOT),
   coursesEnrolled |-> OrElse(b.coursesEnrolled, e.coursesEnrolled),
   coursesCompleted |-> OrElse(b.coursesCompleted, e.coursesCompleted),
   reportDate |-> OrElse(b.reportDate, e.reportDate),
   isFrozen |-> OrElse(b.isFrozen, e.isFrozen),
   updatedAt |-> e.updatedAt]

\* { isFrozen: true } / { isFrozen: false }
FreezeBody(frozen) == [EmptyBody EXCEPT !.isFrozen = {frozen}]

\* ------------------------------------------------------------------ store
Exists(id) == id \in DOMAIN employees
Put(id, e) == [x \in DOMAIN employees \cup {id} |-> IF x = id THEN e ELSE employees[x]]
Remove(id) == [x \in DOMAIN employees \ {id} |-> employees[x]]

\* Employee.find(filter): the ids of the matching documents
Find(officeFilter, dateFilter) ==
  {id \in DOMAIN employees :
     /\ Has(officeFilter) => employees[id].officeId = Val(officeFilter)
     /\ Has(dateFilter) =>
          /\ employees[id].reportDate >= Val(dateFilter)[1]
          /\ employees[id].reportDate <= Val(dateFilter)[2]}

Init ==
  /\ employees = [x \in {} |-> 0]
  /\ offices = {}
  /\ nextEmployeeId = 1
  /\ nextOfficeId = 1
  /\ now = 1
  /\ resp = NoResp
  /\ inflight = [p \in Procs |-> Idle]

\* the clock the handlers read with Date.now()
Tick ==
  /\ now < MaxClock
  /\ now' = now + 1
  /\ resp' = NoResp
  /\ UNCHANGED <<employees, offices, nextEmployeeId, nextOfficeId, inflight>>

\* --------------------------------------------------------------- offices
\* the admin middleware in front of the admin-only routes
AdminOnly(c) == IF IsAdmin(c) THEN 0 ELSE 403

\* POST /api/offices
OfficeCreate(c) ==
  /\ nextOfficeId <= MaxOffices
  /\ IF AdminOnly(c) # 0
       THEN /\ resp' = Response("officeCreate", c, 0, AdminOnly(c))
            /\ UNCHANGED <<offices, nextOfficeId>>
       ELSE /\ offices' = offices \cup {nextOfficeId}
            /\ nextOfficeId' = nextOfficeId + 1
            /\ resp' = Response("officeCreate", c, nextOfficeId, 201)
  /\ UNCHANGED <<employees, nextEmployeeId, now, inflight>>

\* DELETE /api/offices/:id : employees that reference the office are kept
OfficeDelete(c, o) ==
  /\ resp' = Response("officeDelete", c, o,
                      IF AdminOnly(c) # 0 THEN AdminOnly(c)
                      ELSE IF o \notin offices THEN 404 ELSE 200)
  /\ offices' = IF AdminOnly(c) = 0 THEN offices \ {o} ELSE offices
  /\ UNCHANGED <<employees, nextEmployeeId, nextOfficeId, now, inflight>>

\* ------------------------------------------------------- employee reads
\* the office filter of List, Dashboard and Report
Scope(c) == IF IsAdmin(c) THEN {} ELSE {c.officeId}

\* GET /api/employees
ListResult(c) == Find(Scope(c), {})

\* GET /api/employees/report?startDate&endDate: the range filters only when
\* both dates are given
Ranges == Opt(Dates \X Dates)
ReportResult(c, range) == Find(Scope(c), range)

RECURSIVE Sum(_, _)
Sum(S, field) ==
  IF S = {} THEN 0
  ELSE LET x == CHOOSE y \in S : TRUE
       IN employees[x][field] + Sum(S \ {x}, field)

\* (completed / enrolled) * 100 .toFixed(2), in hundredths, nearest
CompletionRate(completed, enrolled) ==
  IF enrolled > 0
    THEN IF completed >= 0
           THEN (completed * 20000 + enrolled) \div (2 * enrolled)
           ELSE 0 - (((0 - completed) * 20000 + enrolled) \div (2 * enrolled))
    ELSE 0

\* the summary statistics of the dashboard handler over the documents found
Summary(visible) ==
  LET registered == {id \in visible : employees[id].isRegisteredOnIGOT}
      enrolled == Sum(visible, "coursesEnrolled")
      completed == Sum(visible, "coursesCompleted")
  IN [totalEmployees |-> Cardinality(visible),
      registeredOnIGOT |-> Cardinality(registered),
      notRegisteredOnIGOT |-> Cardinality(visible) - Cardinality(registered),
      totalCoursesEnrolled |-> enrolled,
      totalCoursesCompleted |-> completed,
      completionRate |-> CompletionRate(completed, enrolled)]

\* GET /api/employees/dashboard
DashboardResult(c) == Summary(Find(Scope(c), {}))

\* GET /api/employees/:id.  populate leaves officeId null when the office
\* document is gone, and employee.officeId._id then throws inside the
\* non-admin branch: the catch answers 500.  A malformed id is a CastError
\* of kind ObjectId: 404.
GetStatus(c, id) ==
  IF id = BadId THEN 404
  ELSE IF ~Exists(id) THEN 404
  ELSE IF IsAdmin(c) THEN 200
  ELSE IF employees[id].officeId \notin offices THEN 500
  ELSE IF c.officeId # employees[id].officeId THEN 403
  ELSE 200

ReadOnly == UNCHANGED <<employees, offices, nextEmployeeId, nextOfficeId, now, inflight>>

EmployeeList(c) ==
  /\ ListResult(c) \subseteq DOMAIN employees
  /\ resp' = Response("list", c, 0, 200)
  /\ ReadOnly

EmployeeDashboard(c) ==
  /\ DashboardResult(c).totalEmployees >= 0
  /\ resp' = Response("dashboard", c, 0, 200)
  /\ ReadOnly

EmployeeReport(c, range) ==
  /\ ReportResult(c, range) \subseteq DOMAIN employees
  /\ resp' = Response("report", c, 0, 200)
  /\ ReadOnly

EmployeeGet(c, id) == resp' = Response("get", c, id, GetStatus(c, id)) /\ ReadOnly

\* ------------------------------------------------------ employee writes
\* POST /api/employees: the office check, then Employee.create
CreateStatus(c, b) ==
  IF ~IsAdmin(c) /\ b.officeId # {c.officeId} THEN 403
  ELSE IF ~ValidDocument(NewEmployee(b, now)) THEN 400
  ELSE 201

EmployeeCreate(c, b) ==
  LET status == CreateStatus(c, b)
  IN /\ nextEmployeeId <= MaxEmployees
     /\ IF status = 201
          THEN /\ employees' = Put(nextEmployeeId, Stored(NewEmployee(b, now)))
               /\ nextEmployeeId' = nextEmployeeId + 1
               /\ resp' = Response("create", c, nextEmployeeId, 201)
          ELSE /\ resp' = Response("create", c, 0, status)
               /\ UNCHANGED <<employees, nextEmployeeId>>
     /\ UNCHANGED <<offices, nextOfficeId, now, inflight>>

\* the update handler without its frozen check
UpdateGateNoFrozenCheck(c, id, b) ==
  IF id = BadId THEN 500
  ELSE IF ~(id \in DOMAIN employees) THEN 404
  ELSE IF ~IsAdmin(c) /\ c.officeId # employees[id].officeId THEN 403
  ELSE IF ~ValidUpdate(b) THEN 400
  ELSE 0

\* PUT /api/employees/:id up to its second store call: findById (a malformed
\* id is a CastError, which the catch answers with 500), the frozen check,
\* the office check, then the update validators; 0 when the write is issued
UpdateGate(c, id, b) ==
  IF id = BadId THEN 500
  ELSE IF ~Exists(id) THEN 404
  ELSE IF employees[id].isFrozen THEN 403
  ELSE IF ~IsAdmin(c) /\ c.officeId # employees[id].officeId THEN 403
  ELSE IF ~ValidUpdate(b) THEN 400
  ELSE 0

\* the delete handler without its frozen check
DeleteGateNoFrozenCheck(c, id) ==
  IF id = BadId THEN 500
  ELSE IF ~(id \in DOMAIN employees) THEN 404
  ELSE IF ~IsAdmin(c) /\ c.officeId # employees[id].officeId THEN 403
  ELSE 0

\* DELETE /api/employees/:id up to findByIdAndDelete
DeleteGate(c, id) ==
  IF id = BadId THEN 500
  ELSE IF ~Exists(id) THEN 404
  ELSE IF employees[id].isFrozen THEN 403
  ELSE IF ~IsAdmin(c) /\ c.officeId # employees[id].officeId THEN 403
  ELSE 0

\* PUT /api/employees/freeze/:id and unfreeze/:id up to findByIdAndUpdate
FreezeGate(c, id) ==
  IF AdminOnly(c) # 0 THEN AdminOnly(c)
  ELSE IF id = BadId THEN 500
  ELSE IF ~Exists(id) THEN 404
  ELSE 0

Gate(op, c, id, b) ==
  CASE op = "update" -> UpdateGate(c, id, b)
    [] op = "delete" -> DeleteGate(c, id)
    [] OTHER -> FreezeGate(c, id)

\* the second store call, atomic on the one document: findByIdAndUpdate sets
\* the body's paths of the document if it is (still) there, findByIdAndDelete
\* removes it
Written(op, id, b) ==
  IF ~Exists(id) THEN employees
  ELSE IF op = "delete" THEN Remove(id)
  ELSE Put(id, ApplyUpdate(employees[id], b))

\* a whole handler, its two store calls back to back
Handle(op, c, id, b) ==
  LET g == Gate(op, c, id, b)
  IN /\ resp' = Response(op, c, id, IF g # 0 THEN g ELSE 200)
     /\ employees' = IF g # 0 THEN employees ELSE Written(op, id, b)
     /\ UNCHANGED <<offices, nextEmployeeId, nextOfficeId, now, inflight>>

EmployeeUpdate(c, id, b) == Handle("update", c, id, b)

EmployeeDelete(c, id) == Handle("delete", c, id, EmptyBody)

EmployeeFreeze(c, id) == Handle("freeze", c, id, FreezeBody(TRUE))

EmployeeUnfreeze(c, id) == Handle("unfreeze", c, id, FreezeBody(FALSE))

Next ==
  \/ Tick
  \/ \E c \in Callers : OfficeCreate(c)
  \/ \E c \in Callers, o \in OfficeIds : OfficeDelete(c, o)
  \/ \E c \in Callers : EmployeeList(c)
  \/ \E c \in Callers : EmployeeDashboard(c)
  \/ \E c \in Callers, range \in Ranges : EmployeeReport(c, range)
  \/ \E c \in Callers, id \in RequestIds : EmployeeGet(c, id)
  \/ \E c \in Callers, b \in CreateBodies : EmployeeCreate(c, b)
  \/ \E c \in Callers, id \in RequestIds, b \in UpdateBodies : EmployeeUpdate(c, id, b)
  \/ \E c \in Callers, id \in RequestIds : EmployeeDelete(c, id)
  \/ \E c \in Callers, id \in RequestIds : EmployeeFreeze(c, id)
  \/ \E c \in Callers, id \in RequestIds : EmployeeUnfreeze(c, id)

Spec == Init /\ [][Next]_vars

\* ------------------------------------------- handlers interleaved at awaits
\* The handler runs to its second store call: the request is answered at once
\* when a check fails, else the write is in flight.
Begin(p, op, c, id, b) ==
  LET g == Gate(op, c, id, b)
  IN /\ inflight[p].pc = "idle"
     /\ IF g # 0
          THEN /\ resp' = Response(op, c, id, g)
               /\ UNCHANGED inflight
          ELSE /\ resp' = NoResp
               /\ inflight' = [inflight EXCEPT ![p] =
                    [pc |-> "write", op |-> op, caller |-> c, id |-> id, body |-> b]]
     /\ UNCHANGED <<employees, offices, nextEmployeeId, nextOfficeId, now>>

UpdateBegin(p, c, id, b) == Begin(p, "update", c, id, b)

DeleteBegin(p, c, id) == Begin(p, "delete", c, id, EmptyBody)

FreezeBegin(p, c, id) == Begin(p, "freeze", c, id, FreezeBody(TRUE))

UnfreezeBegin(p, c, id) == Begin(p, "unfreeze", c, id, FreezeBody(FALSE))

\* The store applies the write that is in flight and the handler answers 200.
Finish(p) ==
  /\ inflight[p].pc = "write"
  /\ employees' = Written(inflight[p].op, inflight[p].id, inflight[p].body)
  /\ resp' = Response(inflight[p].op, inflight[p].caller, inflight[p].id, 200)
  /\ inflight' = [inflight EXCEPT ![p] = Idle]
  /\ UNCHANGED <<offices, nextEmployeeId, nextOfficeId, now>>

\* Handlers that overlap no other handler take their Next step; at most
\* MaxInflight handlers are suspended between their store calls.  The reads,
\* the office routes and the clock write no employee document and are left to
\* Spec.
NextConc ==
  \/ \E c \in Callers, b \in CreateBodies : EmployeeCreate(c, b)
  \/ \E c \in Callers, id \in RequestIds, b \in UpdateBodies : EmployeeUpdate(c, id, b)
  \/ \E c \in Callers, id \in RequestIds : EmployeeDelete(c, id)
  \/ \E c \in Callers, id \in RequestIds : EmployeeFreeze(c, id)
  \/ \E c \in Callers, id \in RequestIds : EmployeeUnfreeze(c, id)
  \/ \E p \in Procs, c \in Callers, id \in RequestIds, b \in UpdateBodies :
       UpdateBegin(p, c, id, b)
  \/ \E p \in Procs, c \in Callers, id \in RequestIds : DeleteBegin(p, c, id)
  \/ \E p \in Procs, c \in Callers, id \in RequestIds : FreezeBegin(p, c, id)
  \/ \E p \in Procs, c \in Callers, id \in RequestIds : UnfreezeBegin(p, c, id)
  \/ \E p \in Procs : Finish(p)

SpecConc == Init /\ [][NextConc]_vars

\* ------------------------------------------------------------ properties
Changed(id) == id \notin DOMAIN employees' \/ employees'[id] # employees[id]

\* the stored employees of every office but o, with all their fields
Outside(emps, o) ==
  [id \in {x \in DOMAIN emps : emps[x].officeId # o} |-> emps[id]]

OwnEmployees(o) == {id \in DOMAIN employees : employees[id].officeId = o}

InRange(id, range) ==
  /\ employees[id].reportDate >= range[1]
  /\ employees[id].reportDate <= range[2]

\* C1: every stored employee has coursesCompleted <= coursesEnrolled.
C1_CompletedAtMostEnrolled ==
  \A id \in DOMAIN employees :
    employees[id].coursesCompleted <= employees[id].coursesEnrolled

\* C2: every stored employee that is not registered has coursesEnrolled = 0.
C2_UnregisteredHasNoCourses ==
  \A id \in DOMAIN employees :
    ~employees[id].isRegisteredOnIGOT => employees[id].coursesEnrolled = 0

\* C3: with requests one at a time, an Update or Delete of an existing frozen
\* employee answers 403 for every caller and leaves the store unchanged, and a
\* frozen employee is changed or removed by no request but a successful
\* Unfreeze of it.
C3_FrozenRejectsUpdateAndDelete ==
  [][/\ (/\ resp'.op \in {"update", "delete"}
         /\ Exists(resp'.id)
         /\ employees[resp'.id].isFrozen)
        => (resp'.status = 403 /\ employees' = employees)
     /\ \A id \in EmployeeIds :
          (Exists(id) /\ employees[id].isFrozen /\ Changed(id))
          => (resp'.op = "unfreeze" /\ resp'.id = id /\ resp'.status = 200)]_vars

\* C3 witness: an admin's Update of a frozen employee was answered 403.
C3_Witness ==
  /\ resp.op = "update"
  /\ resp.status = 403
  /\ IsAdmin(resp.caller)
  /\ Exists(resp.id)
  /\ employees[resp.id].isFrozen

\* C4: a Create, Update or Delete made by a non-admin caller of office A leaves
\* the employees whose officeId differs from A, and their fields, as they were.
C4_NonAdminLeavesOtherOffices ==
  [][(resp'.op \in {"create", "update", "delete"} /\ ~IsAdmin(resp'.caller))
     => Outside(employees', resp'.caller.officeId)
          = Outside(employees, resp'.caller.officeId)]_vars

\* C5: the isFrozen of an existing employee changes only in a Freeze or
\* Unfreeze request of that employee made by an admin.
C5_FreezeIsAdminOnly ==
  [][\A id \in EmployeeIds :
       (/\ Exists(id)
        /\ id \in DOMAIN employees'
        /\ employees'[id].isFrozen # employees[id].isFrozen)
       => (/\ resp'.op \in {"freeze", "unfreeze"}
           /\ resp'.id = id
           /\ IsAdmin(resp'.caller))]_vars

\* C6 as claimed: once a Freeze of e has completed, the next step changes no
\* field of e and does not remove e unless it is an Unfreeze, also when
\* handlers interleave at their store calls.
C6_FrozenImmutableUnderInterleaving ==
  [][(resp.op = "freeze" /\ resp.status = 200 /\ Exists(resp.id))
     => (resp'.op = "unfreeze" \/ ~Changed(resp.id))]_vars

\* C6 amended: an Update or Delete handler that reads a frozen e issues no
\* write, however handlers interleave; a frozen e is changed or removed only by
\* an Unfreeze or by the write of a handler that was already in flight (one
\* that read e while it was not frozen).
C6_FrozenReadIssuesNoWrite ==
  [][/\ \A p \in Procs :
          (/\ inflight[p].pc = "idle"
           /\ inflight'[p].pc = "write"
           /\ inflight'[p].op \in {"update", "delete"})
          => ~employees[inflight'[p].id].isFrozen
     /\ \A id \in EmployeeIds :
          (Exists(id) /\ employees[id].isFrozen /\ Changed(id))
          => \/ resp'.op = "unfreeze" /\ resp'.id = id
             \/ \E p \in Procs :
                  /\ inflight[p].pc = "write"
                  /\ inflight'[p].pc = "idle"
                  /\ inflight[p].id = id]_vars

\* C6 witness: e is frozen, a Delete of e was answered 403, and an Update of e
\* that read e before the freeze is still in flight.
C6_Witness ==
  /\ resp.op = "delete"
  /\ resp.status = 403
  /\ Exists(resp.id)
  /\ employees[resp.id].isFrozen
  /\ \E p \in Procs :
       /\ inflight[p].pc = "write"
       /\ inflight[p].op = "update"
       /\ inflight[p].id = resp.id

\* C7: after a successful Update, Freeze or Unfreeze of e, the updatedAt of e
\* is the time of that request.
C7_UpdatedAtRefreshed ==
  (/\ resp.op \in {"update", "freeze", "unfreeze"}
   /\ resp.status = 200
   /\ Exists(resp.id))
  => employees[resp.id].updatedAt = now

\* C8: every stored employee has coursesEnrolled >= 0 and coursesCompleted >= 0.
C8_CountsNonNegative ==
  \A id \in DOMAIN employees :
    employees[id].coursesEnrolled >= 0 /\ employees[id].coursesCompleted >= 0

\* C9: for a non-admin caller of office A, List, Report and Dashboard are
\* computed over exactly the employees of office A (Report within the range),
\* and Get by id of an existing employee answers 200 when its office is A and
\* 403 otherwise; an admin sees all employees.
C9_ReadsAreOfficeScoped ==
  /\ \A c \in Callers :
       LET visible == IF IsAdmin(c) THEN DOMAIN employees ELSE OwnEmployees(c.officeId)
       IN /\ ListResult(c) = visible
          /\ DashboardResult(c) = Summary(visible)
          /\ ReportResult(c, {}) = visible
          /\ \A r \in Dates \X Dates :
               ReportResult(c, {r}) = {id \in visible : InRange(id, r)}
  /\ (resp.op = "get" /\ Exists(resp.id))
     => resp.status =
          IF IsAdmin(resp.caller) \/ employees[resp.id].officeId = resp.caller.officeId
            THEN 200
            ELSE 403

\* C10: a Get by id answers 200, 404 or 403, never 500.
C10_GetNeverServerError ==
  resp.op = "get" => resp.status \in {200, 404, 403}
====
